---- MODULE Spec2Model ----
(***************************************************************************)
(* License backend (server.js, models.js, mercadopago.js, license-sign.js) *)
(* as a state machine: the License table, the payment provider's           *)
(* preapprovals, the clock, and one action per route handler.              *)
(*                                                                         *)
(* Time is counted in abstract ticks; OneDay and OneMonth keep the order   *)
(* of the two durations the handlers add to the clock.                     *)
(***************************************************************************)
EXTENDS Integers, Sequences, FiniteSets, TLC

(* ------------------------------ bounds --------------------------------- *)
MaxTime == 2    \* the clock stops here
MaxPre == 2     \* preapprovals the provider will create
MaxInFlight == 2   \* requests that can be between two awaits at once
MaxWait == 4    \* the clock of the holder of an assertion stops here

(* ------------------------- program constants --------------------------- *)
OneDay == 1
OneMonth == 2
OfflineTtl == 3

Users == {1}
DeviceIds == {"A", "B", "C", "D"}
FewDevices == {"A"}
TwoDevices == {"A", "B"}
NoDevice == ""
NULL == 0
PreIds == 1..MaxPre
UnknownId == MaxPre + 1   \* an id the provider never issued
Plans == {"single", "multi"}
Slots == 1..MaxInFlight

VARIABLES
  licenses,   \* the License table: a sequence of rows, a row's id is its index
  pre,        \* the provider's preapprovals: id -> [status, ref]
  now,        \* the clock (Date.now())
  tokSeq,     \* number of license tokens generated so far
  privKey,    \* TRUE iff LICENSE_PRIVATE_KEY_B64 is provisioned
  res,        \* the response of the request just handled
  calls,      \* provider calls and table writes of that request, in order
  procs       \* per slot, a request suspended at an await (interleaved runs)

vars == <<licenses, pre, now, tokSeq, privKey, res, calls, procs>>

(* ------------------------------ helpers -------------------------------- *)
Range(s) == {s[i] : i \in DOMAIN s}

\* models.js: a new row, with the column defaults of License (features: the
\* set of flags that are on, none by default)
NewLicense(userId, plan, status, expiresAt, mpPreapprovalId, token) ==
  [userId |-> userId, plan |-> plan, status |-> status, token |-> token,
   expiresAt |-> expiresAt, devices |-> <<>>,
   mpPreapprovalId |-> mpPreapprovalId, features |-> {}]

limitForPlan(plan) == IF plan = "multi" THEN 3 ELSE 1

\* new Set(arr): the distinct elements, in first-insertion order
RECURSIVE NewSet(_)
NewSet(arr) ==
  IF arr = <<>> THEN <<>>
  ELSE LET front == NewSet(SubSeq(arr, 1, Len(arr) - 1))
           last == arr[Len(arr)]
       IN IF last \in Range(front) THEN front ELSE Append(front, last)

\* mutant: the new device takes the place of the ones bound
SetAddReplaces(set, d) == IF d \in Range(set) THEN set ELSE <<d>>

\* set.add(d); [...set]
SetAdd(set, d) == IF d \in Range(set) THEN set ELSE Append(set, d)

\* mutant: detach empties the list when it finds the device
FilterOutAll(arr, deviceId) == IF deviceId \in Range(arr) THEN <<>> ELSE arr

\* arr.filter(d => d !== deviceId)
FilterOut(arr, deviceId) == SelectSeq(arr, LAMBDA d : d # deviceId)

\* generateLicenseToken(): random part + timestamp, a value not seen before
generateLicenseToken == tokSeq + 1

\* License.findOne({ where }) without order: any matching row
FindByUser(userId) == {i \in DOMAIN licenses : licenses[i].userId = userId}
FindActiveByUser(userId) ==
  {i \in FindByUser(userId) : licenses[i].status = "active"}
FindByPreapproval(id) ==
  {i \in DOMAIN licenses : licenses[i].mpPreapprovalId = id}
FindByToken(token) == {i \in DOMAIN licenses : licenses[i].token = token}

Response(op, code, err) ==
  [op |-> op, code |-> code, err |-> err, lic |-> <<>>, jws |-> <<>>]
ResponseLic(op, lic) ==
  [op |-> op, code |-> 200, err |-> "none", lic |-> <<lic>>, jws |-> <<>>]

\* a slot with no request in it
IdleSlot == [pc |-> "idle", id |-> NULL, status |-> "none", ref |-> NULL,
             row |-> 0, lic |-> <<>>, op |-> "none", dev |-> NoDevice,
             out |-> "none", plan |-> "none"]

\* no request has been answered since the clock or the provider last moved
NoResponse == Response("none", 0, "none")

(* ------------------------------- Init ---------------------------------- *)
Init ==
  /\ licenses = <<>>
  /\ pre = [id \in PreIds |-> [status |-> "none", ref |-> NULL, parallel |-> FALSE]]
  /\ now = 0
  /\ tokSeq = 0
  /\ privKey = TRUE
  /\ res = NoResponse
  /\ calls = <<>>
  /\ procs = [s \in Slots |-> IdleSlot]

(* ----------------------- POST /license/devices/attach ------------------ *)
\* mutant: the quota test lets one device too many in
AttachOutcomeOffByOne(lic, deviceId) ==
  LET max == limitForPlan(lic.plan)
      set == NewSet(lic.devices)
  IN IF deviceId \in Range(set) THEN [err |-> "none", lic |-> lic, saved |-> FALSE]
     ELSE IF Len(set) > max THEN [err |-> "quota", lic |-> lic, saved |-> FALSE]
     ELSE [err |-> "none", lic |-> [lic EXCEPT !.devices = SetAdd(set, deviceId)],
           saved |-> TRUE]

\* mutant: the quota test comes before the test for a device already bound
AttachOutcomeQuotaFirst(lic, deviceId) ==
  LET max == limitForPlan(lic.plan)
      set == NewSet(lic.devices)
  IN IF Len(set) >= max THEN [err |-> "quota", lic |-> lic, saved |-> FALSE]
     ELSE IF deviceId \in Range(set) THEN [err |-> "none", lic |-> lic, saved |-> FALSE]
     ELSE [err |-> "none", lic |-> [lic EXCEPT !.devices = SetAdd(set, deviceId)],
           saved |-> TRUE]

\* the device part of attach and of validate: already bound, over quota, or
\* the license with the device added
AttachOutcome(lic, deviceId) ==
  LET max == limitForPlan(lic.plan)
      set == NewSet(lic.devices)
  IN IF deviceId \in Range(set) THEN [err |-> "none", lic |-> lic, saved |-> FALSE]
     ELSE IF Len(set) >= max THEN [err |-> "quota", lic |-> lic, saved |-> FALSE]
     ELSE [err |-> "none", lic |-> [lic EXCEPT !.devices = SetAdd(set, deviceId)],
           saved |-> TRUE]

Attach(userId, deviceId) ==
  /\ UNCHANGED <<pre, now, tokSeq, privKey, procs>>
  /\ IF deviceId = NoDevice
     THEN /\ res' = Response("attach", 400, "deviceId")
          /\ calls' = <<>>
          /\ UNCHANGED licenses
     ELSE IF FindActiveByUser(userId) = {}
     THEN /\ res' = Response("attach", 404, "no_active_license")
          /\ calls' = <<>>
          /\ UNCHANGED licenses
     ELSE \E i \in FindActiveByUser(userId) :
            LET out == AttachOutcome(licenses[i], deviceId)
            IN IF out.err = "quota"
               THEN /\ res' = Response("attach", 403, "quota")
                    /\ calls' = <<>>
                    /\ UNCHANGED licenses
               ELSE /\ licenses' = [licenses EXCEPT ![i] = out.lic]
                    /\ calls' = IF out.saved THEN <<[fn |-> "save", id |-> i, ok |-> TRUE]>>
                                ELSE <<>>
                    /\ res' = ResponseLic("attach", out.lic)

(* ----------------------- POST /license/devices/detach ------------------ *)
DetachOutcome(lic, deviceId) ==
  [lic EXCEPT !.devices = FilterOut(lic.devices, deviceId)]

Detach(userId, deviceId) ==
  /\ UNCHANGED <<pre, now, tokSeq, privKey, procs>>
  /\ IF FindByUser(userId) = {}
     THEN /\ res' = Response("detach", 404, "no_license")
          /\ calls' = <<>>
          /\ UNCHANGED licenses
     ELSE \E i \in FindByUser(userId) :
            LET lic == DetachOutcome(licenses[i], deviceId)
            IN /\ licenses' = [licenses EXCEPT ![i] = lic]
               /\ calls' = <<[fn |-> "save", id |-> i, ok |-> TRUE]>>
               /\ res' = ResponseLic("detach", lic)

(* --------------------------- mercadopago.js ---------------------------- *)
\* the id the provider gives the next preapproval it creates
FreshPreIds == {id \in PreIds : pre[id].status = "none"}
NextPreId == CHOOSE id \in FreshPreIds : \A other \in FreshPreIds : id <= other

\* createSubscriptionDirect: a pending preapproval whose external_reference
\* is the user.  The field parallel is history kept for the properties, the
\* program never reads it: the preapproval was created by change-method and
\* the payer has not authorized it.
createSubscriptionDirect(userId) ==
  [pre EXCEPT ![NextPreId] = [status |-> "pending", ref |-> userId,
                              parallel |-> FALSE]]

\* getPreapprovalById throws for an id the provider does not know (any other
\* failure of the request is the same throw to the handlers)
CanGet(id) == id \in PreIds /\ pre[id].status # "none"

\* preapproval.update({ id, status }): the provider's state after the call
UpdatePreapproval(p, id, status, ok) ==
  IF ok THEN [p EXCEPT ![id].status = status] ELSE p
cancelPreapproval(p, id, ok) == UpdatePreapproval(p, id, "cancelled", ok)
pausePreapproval(p, id, ok) == UpdatePreapproval(p, id, "paused", ok)
resumePreapproval(p, id, ok) == UpdatePreapproval(p, id, "authorized", ok)

\* mutant: the failure of the cancel call escapes the inner try
TryCancelRethrows(p, old, okCancel) ==
  [pre |-> cancelPreapproval(p, old, okCancel), thrown |-> ~okCancel]

\* try { await cancelPreapproval(old) } catch (e) { console.warn(...) }:
\* the provider after the call, and whether anything is thrown on
TryCancel(p, old, okCancel) ==
  [pre |-> cancelPreapproval(p, old, okCancel), thrown |-> FALSE]

Call(fn, id, ok) == [fn |-> fn, id |-> id, ok |-> ok]

(* ---------------------------- POST /subscribe -------------------------- *)
\* mutant: the pending license starts without devices
SubscribeAssignClearsDevices(lic, plan, mpPreapprovalId) ==
  [lic EXCEPT !.plan = plan, !.status = "inactive",
              !.mpPreapprovalId = mpPreapprovalId,
              !.expiresAt = now + OneDay, !.devices = <<>>]

SubscribeAssign(lic, plan, mpPreapprovalId) ==
  [lic EXCEPT !.plan = plan, !.status = "inactive",
              !.mpPreapprovalId = mpPreapprovalId,
              !.expiresAt = now + OneDay]

Subscribe(userId, plan, ok) ==
  /\ UNCHANGED <<now, tokSeq, privKey, procs>>
  /\ IF plan \notin Plans
     THEN /\ res' = Response("subscribe", 400, "plan")
          /\ calls' = <<>>
          /\ UNCHANGED <<licenses, pre>>
     ELSE IF ~ok
     THEN /\ res' = Response("subscribe", 500, "provider")
          /\ calls' = <<Call("createSubscriptionDirect", NULL, FALSE)>>
          /\ UNCHANGED <<licenses, pre>>
     ELSE /\ FreshPreIds # {}
          /\ pre' = createSubscriptionDirect(userId)
          /\ res' = Response("subscribe", 200, "none")
          /\ IF FindByUser(userId) # {}
             THEN \E i \in FindByUser(userId) :
                    /\ licenses' = [licenses EXCEPT
                                      ![i] = SubscribeAssign(licenses[i], plan, NextPreId)]
                    /\ calls' = <<Call("createSubscriptionDirect", NextPreId, TRUE),
                                  Call("save", i, TRUE)>>
             ELSE /\ licenses' = Append(licenses,
                      NewLicense(userId, plan, "inactive", now + OneDay, NextPreId, NULL))
                  /\ calls' = <<Call("createSubscriptionDirect", NextPreId, TRUE),
                                Call("create", Len(licenses) + 1, TRUE)>>

(* ------------------------------ GET /return ---------------------------- *)
ReturnActivate(lic, preId) ==
  [lic EXCEPT !.mpPreapprovalId = preId, !.status = "active",
              !.expiresAt = now + OneMonth,
              !.token = IF lic.token = NULL THEN generateLicenseToken ELSE lic.token]

Return(preapprovalId) ==
  /\ UNCHANGED <<now, privKey, procs>>
  /\ IF preapprovalId = NULL
     THEN /\ res' = Response("return", 302, "missing_preapproval")
          /\ calls' = <<>>
          /\ UNCHANGED <<licenses, pre, tokSeq>>
     ELSE IF ~CanGet(preapprovalId)
     THEN /\ res' = Response("return", 302, "error")
          /\ calls' = <<Call("getPreapprovalById", preapprovalId, FALSE)>>
          /\ UNCHANGED <<licenses, pre, tokSeq>>
     ELSE LET p == pre[preapprovalId]
              userId == p.ref
              get == Call("getPreapprovalById", preapprovalId, TRUE)
          IN IF p.status \in {"authorized", "active"} /\ userId # NULL
             THEN IF FindByUser(userId) = {}
                     THEN /\ res' = Response("return", 302, "ok")
                          /\ licenses' = Append(licenses,
                               NewLicense(userId, "single", "active", now + OneMonth,
                                          preapprovalId, generateLicenseToken))
                          /\ tokSeq' = tokSeq + 1
                          /\ calls' = <<get, Call("create", Len(licenses) + 1, TRUE)>>
                          /\ UNCHANGED pre
                     ELSE \E i \in FindByUser(userId), okCancel \in BOOLEAN :
                            LET lic == licenses[i]
                                old == lic.mpPreapprovalId
                                migrate == old # NULL /\ old # preapprovalId
                                try == TryCancel(pre, old, okCancel)
                                cancel == Call("cancelPreapproval", old, okCancel)
                            IN IF ~migrate
                               THEN /\ okCancel
                                    /\ res' = Response("return", 302, "ok")
                                    /\ licenses' = [licenses EXCEPT
                                                      ![i] = ReturnActivate(lic, preapprovalId)]
                                    /\ tokSeq' = IF lic.token = NULL THEN tokSeq + 1 ELSE tokSeq
                                    /\ calls' = <<get, Call("save", i, TRUE)>>
                                    /\ UNCHANGED pre
                               ELSE IF try.thrown
                               THEN /\ res' = Response("return", 302, "error")
                                    /\ pre' = try.pre
                                    /\ calls' = <<get, cancel>>
                                    /\ UNCHANGED <<licenses, tokSeq>>
                               ELSE /\ res' = Response("return", 302, "ok")
                                    /\ pre' = try.pre
                                    /\ licenses' = [licenses EXCEPT
                                                      ![i] = ReturnActivate(lic, preapprovalId)]
                                    /\ tokSeq' = IF lic.token = NULL THEN tokSeq + 1 ELSE tokSeq
                                    /\ calls' = <<get, cancel, Call("save", i, TRUE)>>
             ELSE /\ res' = Response("return", 302, p.status)
                  /\ calls' = <<get>>
                  /\ UNCHANGED <<licenses, pre, tokSeq>>

(* ------------------------------ POST /webhook -------------------------- *)
\* mutant: the month is added to the stored expiry, not to the clock
WebhookActivateExtends(lic, preId) ==
  [lic EXCEPT !.mpPreapprovalId = preId, !.status = "active",
              !.expiresAt = lic.expiresAt + OneMonth,
              !.token = IF lic.token = NULL THEN generateLicenseToken ELSE lic.token]

WebhookActivate(lic, preId) ==
  [lic EXCEPT !.mpPreapprovalId = preId, !.status = "active",
              !.expiresAt = now + OneMonth,
              !.token = IF lic.token = NULL THEN generateLicenseToken ELSE lic.token]

\* mutant: a paused or cancelled event also ends the license's time
WebhookSuspendExpires(lic, status) ==
  [lic EXCEPT !.status = status, !.expiresAt = now]

\* a paused or cancelled event: the status is stored, nothing else
WebhookSuspend(lic, status) == [lic EXCEPT !.status = status]

\* mutant: the reconciler looks the license up by the account only
WebhookResolveNoFallback(userId, preId) ==
  IF userId # NULL THEN FindByUser(userId) ELSE {}

\* the rows the reconciler may resolve: by external_reference first, by
\* stored preapproval id when that finds nothing
WebhookResolve(userId, preId) ==
  IF userId # NULL /\ FindByUser(userId) # {} THEN FindByUser(userId)
  ELSE FindByPreapproval(preId)

Webhook(type, dataId) ==
  /\ UNCHANGED <<now, privKey, procs>>
  /\ res' = Response("webhook", 200, "none")
  /\ IF type = "" \/ dataId = NULL \/ type # "preapproval"
     THEN /\ calls' = <<>>
          /\ UNCHANGED <<licenses, pre, tokSeq>>
     ELSE IF ~CanGet(dataId)
     THEN /\ calls' = <<Call("getPreapprovalById", dataId, FALSE)>>
          /\ UNCHANGED <<licenses, pre, tokSeq>>
     ELSE LET p == pre[dataId]
              get == Call("getPreapprovalById", dataId, TRUE)
              found == WebhookResolve(p.ref, dataId)
          IN IF found = {}
             THEN /\ calls' = <<get>>
                  /\ UNCHANGED <<licenses, pre, tokSeq>>
             ELSE \E i \in found, okCancel \in BOOLEAN :
                    LET lic == licenses[i]
                        old == lic.mpPreapprovalId
                        migrate == old # NULL /\ old # dataId
                        try == TryCancel(pre, old, okCancel)
                        cancel == Call("cancelPreapproval", old, okCancel)
                    IN IF p.status \in {"authorized", "active"}
                       THEN IF ~migrate
                            THEN /\ okCancel
                                 /\ licenses' = [licenses EXCEPT
                                                   ![i] = WebhookActivate(lic, dataId)]
                                 /\ tokSeq' = IF lic.token = NULL THEN tokSeq + 1 ELSE tokSeq
                                 /\ calls' = <<get, Call("save", i, TRUE)>>
                                 /\ UNCHANGED pre
                            ELSE IF try.thrown
                            THEN /\ pre' = try.pre
                                 /\ calls' = <<get, cancel>>
                                 /\ UNCHANGED <<licenses, tokSeq>>
                            ELSE /\ pre' = try.pre
                                 /\ licenses' = [licenses EXCEPT
                                                   ![i] = WebhookActivate(lic, dataId)]
                                 /\ tokSeq' = IF lic.token = NULL THEN tokSeq + 1 ELSE tokSeq
                                 /\ calls' = <<get, cancel, Call("save", i, TRUE)>>
                       ELSE IF p.status \in {"paused", "cancelled"}
                       THEN /\ okCancel
                            /\ licenses' = [licenses EXCEPT
                                              ![i] = WebhookSuspend(lic, p.status)]
                            /\ calls' = <<get, Call("save", i, TRUE)>>
                            /\ UNCHANGED <<pre, tokSeq>>
                       ELSE /\ okCancel
                            /\ calls' = <<get>>
                            /\ UNCHANGED <<licenses, pre, tokSeq>>

(* ----------------- the payer, at the provider's checkout --------------- *)
PayerAuthorize(id) ==
  /\ pre[id].status = "pending"
  /\ pre' = [pre EXCEPT ![id].status = "authorized", ![id].parallel = FALSE]
  /\ res' = NoResponse
  /\ calls' = <<>>
  /\ UNCHANGED <<licenses, now, tokSeq, privKey, procs>>

\* the payer leaves the checkout for good, or the provider gives up waiting:
\* a subscription that was never authorized ends cancelled
PayerAbandon(id) ==
  /\ pre[id].status = "pending"
  /\ pre' = [pre EXCEPT ![id].status = "cancelled"]
  /\ res' = NoResponse
  /\ calls' = <<>>
  /\ UNCHANGED <<licenses, now, tokSeq, privKey, procs>>

\* the provider reports a preapproval without its external_reference
ReferenceLost(id) ==
  /\ pre[id].status # "none" /\ pre[id].ref # NULL
  /\ pre' = [pre EXCEPT ![id].ref = NULL]
  /\ res' = NoResponse
  /\ calls' = <<>>
  /\ UNCHANGED <<licenses, now, tokSeq, privKey, procs>>

(* ------------- POST /subscription/cancel, /pause, /resume -------------- *)
\* mutant: the status is stored although the provider call failed
ManageSavesAnyway(op, userId, status, ok) ==
  /\ UNCHANGED <<now, tokSeq, privKey, procs>>
  /\ IF FindByUser(userId) = {}
     THEN /\ res' = Response(op, 404, "no_subscription")
          /\ calls' = <<>>
          /\ UNCHANGED <<licenses, pre>>
     ELSE \E i \in FindByUser(userId) :
            LET id == licenses[i].mpPreapprovalId
            IN IF id = NULL
               THEN /\ res' = Response(op, 404, "no_subscription")
                    /\ calls' = <<>>
                    /\ UNCHANGED <<licenses, pre>>
               ELSE IF ~ok
               THEN /\ res' = Response(op, 500, "provider")
                    /\ calls' = <<Call(op, id, FALSE)>>
                    /\ licenses' = [licenses EXCEPT ![i].status = status]
                    /\ UNCHANGED pre
               ELSE /\ pre' = UpdatePreapproval(pre, id,
                                IF status = "active" THEN "authorized" ELSE status, TRUE)
                    /\ licenses' = [licenses EXCEPT ![i].status = status]
                    /\ calls' = <<Call(op, id, TRUE), Call("save", i, TRUE)>>
                    /\ res' = Response(op, 200, "none")

\* the three handlers differ in the provider call and the status they store
Manage(op, userId, status, ok) ==
  /\ UNCHANGED <<now, tokSeq, privKey, procs>>
  /\ IF FindByUser(userId) = {}
     THEN /\ res' = Response(op, 404, "no_subscription")
          /\ calls' = <<>>
          /\ UNCHANGED <<licenses, pre>>
     ELSE \E i \in FindByUser(userId) :
            LET id == licenses[i].mpPreapprovalId
            IN IF id = NULL
               THEN /\ res' = Response(op, 404, "no_subscription")
                    /\ calls' = <<>>
                    /\ UNCHANGED <<licenses, pre>>
               ELSE IF ~ok
               THEN /\ res' = Response(op, 500, "provider")
                    /\ calls' = <<Call(op, id, FALSE)>>
                    /\ UNCHANGED <<licenses, pre>>
               ELSE /\ pre' = UpdatePreapproval(pre, id,
                                IF status = "active" THEN "authorized" ELSE status, TRUE)
                    /\ licenses' = [licenses EXCEPT ![i].status = status]
                    /\ calls' = <<Call(op, id, TRUE), Call("save", i, TRUE)>>
                    /\ res' = Response(op, 200, "none")

Cancel(userId, ok) == Manage("cancelPreapproval", userId, "cancelled", ok)
Pause(userId, ok) == Manage("pausePreapproval", userId, "paused", ok)
Resume(userId, ok) == Manage("resumePreapproval", userId, "active", ok)

(* -------------------- POST /subscription/change-method ----------------- *)
\* mutant: the license is bound to the new subscription at once
ChangeMethodRebinds(userId, ok) ==
  /\ UNCHANGED <<now, tokSeq, privKey, procs>>
  /\ IF ~ok
     THEN /\ res' = Response("change-method", 500, "provider")
          /\ calls' = <<Call("createSubscriptionDirect", NULL, FALSE)>>
          /\ UNCHANGED <<licenses, pre>>
     ELSE /\ FreshPreIds # {}
          /\ pre' = [createSubscriptionDirect(userId) EXCEPT ![NextPreId].parallel = TRUE]
          /\ calls' = <<Call("createSubscriptionDirect", NextPreId, TRUE)>>
          /\ res' = Response("change-method", 200, "none")
          /\ licenses' = [i \in DOMAIN licenses |->
                            IF licenses[i].userId = userId
                            THEN [licenses[i] EXCEPT !.mpPreapprovalId = NextPreId]
                            ELSE licenses[i]]

ChangeMethod(userId, ok) ==
  /\ UNCHANGED <<licenses, now, tokSeq, privKey, procs>>
  /\ IF ~ok
     THEN /\ res' = Response("change-method", 500, "provider")
          /\ calls' = <<Call("createSubscriptionDirect", NULL, FALSE)>>
          /\ UNCHANGED pre
     ELSE /\ FreshPreIds # {}
          /\ pre' = [createSubscriptionDirect(userId) EXCEPT ![NextPreId].parallel = TRUE]
          /\ calls' = <<Call("createSubscriptionDirect", NextPreId, TRUE)>>
          /\ res' = Response("change-method", 200, "none")

(* ----------------------------- license-sign.js ------------------------- *)
\* the key pair of LICENSE_PRIVATE_KEY_B64 and LICENSE_PUBLIC_KEY_B64, and a
\* key that is not of the pair
KeyPair == "license-key"
OtherKey == "other-key"

\* the RS256 signature of a payload: it is good for that payload and the
\* key that made it, and for nothing else
RS256(payload, key) == [over |-> payload, key |-> key]

\* the claims of a token, without its signature
PayloadOf(jws) == [f \in DOMAIN jws \ {"sig"} |-> jws[f]]

\* signLicenseJWS: the claims of the assertion and the signature over them
\* (it throws without a private key, which the handlers test before they
\* use it)
signLicenseJWS(id, lic, deviceId, max, features) ==
  LET payload == [lic |-> id, uid |-> lic.userId, plan |-> lic.plan,
                  sta |-> lic.status, dev |-> deviceId, max |-> max,
                  fea |-> features, tok |-> lic.token,
                  iat |-> now, exp |-> now + OfflineTtl]
  IN [f \in DOMAIN payload \cup {"sig"} |->
        IF f = "sig" THEN RS256(payload, KeyPair) ELSE payload[f]]

\* mutant: the expiry is tested before the signature
verifyLicenseJWSExpiryFirst(jws) ==
  IF now >= jws.exp THEN "expired"
  ELSE IF jws.sig # RS256(PayloadOf(jws), KeyPair) THEN "invalid_signature"
  ELSE "none"

\* verifyLicenseJWS: jwt.verify with the public key of the pair tests the
\* signature, then the expiry; the error it throws, "none" when it returns
\* the payload
verifyLicenseJWS(jws) ==
  IF jws.sig # RS256(PayloadOf(jws), KeyPair) THEN "invalid_signature"
  ELSE IF now >= jws.exp THEN "expired"
  ELSE "none"

\* the feature flags validate and refresh put in the assertion
Features(lic) ==
  [sync |-> TRUE,
   whatsapp_bot |-> "whatsapp_bot" \in lic.features,
   ai_cameras |-> "ai_cameras" \in lic.features]

\* the license summary of the validate and refresh responses
Summary(id, lic) ==
  [id |-> id, plan |-> lic.plan, status |-> lic.status,
   expiresAt |-> lic.expiresAt, devices |-> lic.devices]

\* the answer of a validate or refresh that issues an assertion
Issued(op, id, lic, deviceId) ==
  [op |-> op, code |-> 200, err |-> "none", lic |-> <<Summary(id, lic)>>,
   jws |-> <<signLicenseJWS(id, lic, deviceId, limitForPlan(lic.plan),
                            Features(lic))>>]

\* mutant: the expiry is tested before the status
UsableExpiryFirst(lic) ==
  IF lic.expiresAt < now THEN "expired"
  ELSE IF lic.status # "active" THEN "not_active"
  ELSE "none"

\* the checks validate and refresh make before anything else: the reason
\* of the rejection, "none" when the license is usable
Usable(lic) ==
  IF lic.status # "active" THEN "not_active"
  ELSE IF lic.expiresAt < now THEN "expired"
  ELSE "none"

(* ----------------------- POST /public/license/validate ----------------- *)
Validate(token, deviceId) ==
  /\ UNCHANGED <<pre, now, tokSeq, privKey, procs>>
  /\ IF token = NULL \/ deviceId = NoDevice
     THEN /\ res' = Response("validate", 400, "input")
          /\ calls' = <<>>
          /\ UNCHANGED licenses
     ELSE IF FindByToken(token) = {}
     THEN /\ res' = Response("validate", 404, "not_found")
          /\ calls' = <<>>
          /\ UNCHANGED licenses
     ELSE \E i \in FindByToken(token) :
            LET lic == licenses[i]
                out == AttachOutcome(lic, deviceId)
            IN IF Usable(lic) # "none"
               THEN /\ res' = Response("validate", 403, Usable(lic))
                    /\ calls' = <<>>
                    /\ UNCHANGED licenses
               ELSE IF out.err = "quota"
               THEN /\ res' = Response("validate", 403, "quota")
                    /\ calls' = <<>>
                    /\ UNCHANGED licenses
               ELSE /\ licenses' = [licenses EXCEPT ![i] = out.lic]
                    /\ calls' = IF out.saved THEN <<Call("save", i, TRUE)>> ELSE <<>>
                    /\ res' = IF privKey THEN Issued("validate", i, out.lic, deviceId)
                              ELSE Response("validate", 500, "internal")

(* ----------------------- POST /public/license/refresh ------------------ *)
\* mutant: refresh binds a device that is not bound, as validate does
RefreshBinds(token, deviceId) ==
  /\ UNCHANGED <<pre, now, tokSeq, privKey, procs>>
  /\ IF token = NULL \/ deviceId = NoDevice
     THEN /\ res' = Response("refresh", 400, "input")
          /\ calls' = <<>>
          /\ UNCHANGED licenses
     ELSE IF FindByToken(token) = {}
     THEN /\ res' = Response("refresh", 404, "not_found")
          /\ calls' = <<>>
          /\ UNCHANGED licenses
     ELSE \E i \in FindByToken(token) :
            LET lic == licenses[i]
                out == AttachOutcome(lic, deviceId)
            IN IF Usable(lic) # "none"
               THEN /\ res' = Response("refresh", 403, Usable(lic))
                    /\ calls' = <<>>
                    /\ UNCHANGED licenses
               ELSE IF out.err = "quota"
               THEN /\ res' = Response("refresh", 403, "not_bound")
                    /\ calls' = <<>>
                    /\ UNCHANGED licenses
               ELSE /\ licenses' = [licenses EXCEPT ![i] = out.lic]
                    /\ calls' = IF out.saved THEN <<Call("save", i, TRUE)>> ELSE <<>>
                    /\ res' = Issued("refresh", i, out.lic, deviceId)

Refresh(token, deviceId) ==
  /\ UNCHANGED <<licenses, pre, now, tokSeq, privKey, procs>>
  /\ calls' = <<>>
  /\ IF token = NULL \/ deviceId = NoDevice
     THEN res' = Response("refresh", 400, "input")
     ELSE IF FindByToken(token) = {}
     THEN res' = Response("refresh", 404, "not_found")
     ELSE \E i \in FindByToken(token) :
            LET lic == licenses[i]
            IN IF Usable(lic) # "none"
               THEN res' = Response("refresh", 403, Usable(lic))
               ELSE IF deviceId \notin Range(lic.devices)
               THEN res' = Response("refresh", 403, "not_bound")
               ELSE IF privKey THEN res' = Issued("refresh", i, lic, deviceId)
               ELSE res' = Response("refresh", 500, "internal")

(* ------------------- the holder of an assertion ------------------------ *)
\* what the holder presents: the token as issued, or with a claim or the
\* signature altered
Tampers == {"none", "exp", "plan", "sig"}
Tamper(jws, how) ==
  IF how = "exp" THEN [jws EXCEPT !.exp = @ + 1]
  ELSE IF how = "plan" THEN [jws EXCEPT !.plan = "multi", !.max = 3, !.dev = "Z"]
  ELSE IF how = "sig" THEN [jws EXCEPT !.sig = RS256(PayloadOf(jws), OtherKey)]
  ELSE jws

\* the assertion of the last answer is verified, as it is or altered; the
\* holder keeps the assertion it was given
Verify(how) ==
  /\ res.jws # <<>>
  /\ res' = [res EXCEPT !.op = "verify",
                        !.err = verifyLicenseJWS(Tamper(res.jws[1], how))]
  /\ UNCHANGED <<licenses, pre, now, tokSeq, privKey, calls, procs>>

\* time passes for the holder of an assertion
Wait ==
  /\ now < MaxWait
  /\ now' = now + 1
  /\ UNCHANGED <<licenses, pre, tokSeq, privKey, res, calls, procs>>

(* ------------------------------- clock --------------------------------- *)
Tick ==
  /\ now < MaxTime
  /\ now' = now + 1
  /\ res' = NoResponse
  /\ calls' = <<>>
  /\ UNCHANGED <<licenses, pre, tokSeq, privKey, procs>>

Next ==
  \/ \E u \in Users, d \in FewDevices : Attach(u, d)
  \/ \E u \in Users, d \in FewDevices : Detach(u, d)
  \/ \E u \in Users, plan \in Plans, ok \in BOOLEAN : Subscribe(u, plan, ok)
  \/ \E id \in PreIds \cup {UnknownId} : Return(id)
  \/ \E type \in {"preapproval", "payment"}, id \in PreIds \cup {NULL, UnknownId} :
        Webhook(type, id)
  \/ \E id \in PreIds : PayerAuthorize(id)
  \/ \E u \in Users, ok \in BOOLEAN : Cancel(u, ok)
  \/ \E u \in Users, ok \in BOOLEAN : Pause(u, ok)
  \/ \E u \in Users, ok \in BOOLEAN : Resume(u, ok)
  \/ \E u \in Users, ok \in BOOLEAN : ChangeMethod(u, ok)
  \/ \E t \in 1..tokSeq, d \in FewDevices : Validate(t, d)
  \/ \E t \in 1..tokSeq, d \in FewDevices : Refresh(t, d)
  \/ Tick

Spec == Init /\ [][Next]_vars

(* the device handlers over four devices, so that both quotas are reached; *)
(* the clock stands still and every provider call succeeds                 *)
NextDevices ==
  \/ \E u \in Users, d \in DeviceIds : Attach(u, d)
  \/ \E u \in Users, d \in DeviceIds : Detach(u, d)
  \/ \E u \in Users, plan \in Plans : Subscribe(u, plan, TRUE)
  \/ \E id \in PreIds : Webhook("preapproval", id)
  \/ \E id \in PreIds : PayerAuthorize(id)
  \/ \E u \in Users : Pause(u, TRUE)
  \/ \E u \in Users : Cancel(u, TRUE)
  \/ \E t \in 1..tokSeq, d \in DeviceIds : Validate(t, d)
  \/ \E t \in 1..tokSeq, d \in DeviceIds : Refresh(t, d)

SpecDevices == Init /\ [][NextDevices]_vars

(* change of the payment method: subscriptions created next to the one the *)
(* license is on, authorized or dropped by the payer, and the events and   *)
(* returns that follow; every provider call succeeds                        *)
NextChange ==
  \/ \E u \in Users, plan \in Plans : Subscribe(u, plan, TRUE)
  \/ \E u \in Users : ChangeMethod(u, TRUE)
  \/ \E id \in PreIds : PayerAuthorize(id)
  \/ \E id \in PreIds : PayerAbandon(id)
  \/ \E id \in PreIds : Webhook("preapproval", id)
  \/ \E id \in PreIds : Return(id)
  \/ \E u \in Users : Pause(u, TRUE)

SpecChange == Init /\ [][NextChange]_vars

(* events for preapprovals with and without external_reference, for        *)
(* accounts with and without a license                                     *)
NextResolve ==
  \/ \E u \in Users, plan \in Plans : Subscribe(u, plan, TRUE)
  \/ \E u \in Users : ChangeMethod(u, TRUE)
  \/ \E id \in PreIds : PayerAuthorize(id)
  \/ \E id \in PreIds : ReferenceLost(id)
  \/ \E id \in PreIds \cup {UnknownId} : Webhook("preapproval", id)
  \/ \E u \in Users : Pause(u, TRUE)

SpecResolve == Init /\ [][NextResolve]_vars

(* subscriptions superseded by newly authorized ones: here a subscription  *)
(* is cancelled only by the handler that rebinds the license away from it  *)
NextStale ==
  \/ \E u \in Users, plan \in Plans : Subscribe(u, plan, TRUE)
  \/ \E u \in Users : ChangeMethod(u, TRUE)
  \/ \E id \in PreIds : PayerAuthorize(id)
  \/ \E id \in PreIds : Webhook("preapproval", id)
  \/ \E id \in PreIds : Return(id)

SpecStale == Init /\ [][NextStale]_vars

(* the server started without LICENSE_PRIVATE_KEY_B64: signLicenseJWS      *)
(* throws                                                                  *)
InitNoKey ==
  /\ licenses = <<>>
  /\ pre = [id \in PreIds |-> [status |-> "none", ref |-> NULL, parallel |-> FALSE]]
  /\ now = 0
  /\ tokSeq = 0
  /\ privKey = FALSE
  /\ res = NoResponse
  /\ calls = <<>>
  /\ procs = [s \in Slots |-> IdleSlot]

NextNoKey ==
  \/ \E u \in Users, plan \in Plans : Subscribe(u, plan, TRUE)
  \/ \E id \in PreIds : PayerAuthorize(id)
  \/ \E id \in PreIds : Webhook("preapproval", id)
  \/ \E u \in Users, d \in TwoDevices : Detach(u, d)
  \/ \E t \in 1..tokSeq, d \in TwoDevices : Validate(t, d)
  \/ \E t \in 1..tokSeq, d \in TwoDevices : Refresh(t, d)

SpecNoKey == InitNoKey /\ [][NextNoKey]_vars

(* assertions issued, kept while time passes beyond their expiry, and      *)
(* verified                                                                *)
NextVerify ==
  \/ \E u \in Users, plan \in Plans : Subscribe(u, plan, TRUE)
  \/ \E id \in PreIds : PayerAuthorize(id)
  \/ \E id \in PreIds : Webhook("preapproval", id)
  \/ \E t \in 1..tokSeq, d \in FewDevices : Validate(t, d)
  \/ \E t \in 1..tokSeq, d \in FewDevices : Refresh(t, d)
  \/ \E how \in Tampers : Verify(how)
  \/ Wait

SpecVerify == Init /\ [][NextVerify]_vars

(* ================== requests interleaved at their awaits =============== *)
(* A handler runs without interruption from one await to the next; between *)
(* two awaits other handlers run.  lic.save() writes the columns the        *)
(* handler changed on the row it read, and leaves the others as they are in *)
(* the table.                                                              *)

\* mutant: save() writes the whole row as the handler holds it
SaveWholeRow(row, read, held) == held

\* instance.save(): UPDATE of the changed columns only
SaveChanged(row, read, held) ==
  [f \in DOMAIN row |-> IF held[f] # read[f] THEN held[f] ELSE row[f]]

\* mutant: an event without type or id, or not about a preapproval, is
\* refused
ConcWebhookRespondRejects(s, type, dataId) ==
  /\ procs[s].pc = "idle"
  /\ IF type = "" \/ dataId = NULL \/ type # "preapproval"
     THEN /\ res' = Response("webhook", 400, "input")
          /\ procs' = [procs EXCEPT ![s] = IdleSlot]
     ELSE /\ res' = Response("webhook", 200, "none")
          /\ procs' = [procs EXCEPT ![s] = [IdleSlot EXCEPT !.pc = "get", !.id = dataId]]
  /\ UNCHANGED <<licenses, pre, now, tokSeq, privKey, calls>>

\* POST /webhook up to its first await: the answer is sent, then the event
\* is dropped or the request for the preapproval leaves
ConcWebhookRespond(s, type, dataId) ==
  /\ procs[s].pc = "idle"
  /\ res' = Response("webhook", 200, "none")
  /\ procs' = [procs EXCEPT ![s] =
       IF type = "" \/ dataId = NULL \/ type # "preapproval"
       THEN IdleSlot
       ELSE [IdleSlot EXCEPT !.pc = "get", !.id = dataId]]
  /\ UNCHANGED <<licenses, pre, now, tokSeq, privKey, calls>>

\* the provider answers getPreapprovalById; for an id it does not know the
\* call throws and the handler ends in its catch
ConcWebhookGet(s) ==
  LET me == procs[s]
  IN /\ me.pc = "get"
     /\ procs' = [procs EXCEPT ![s] =
          IF CanGet(me.id)
          THEN [me EXCEPT !.pc = "find", !.status = pre[me.id].status,
                          !.ref = pre[me.id].ref]
          ELSE IdleSlot]
     /\ UNCHANGED <<licenses, pre, now, tokSeq, privKey, res, calls>>

\* the row is read; what follows depends on the status fetched
ConcWebhookFind(s) ==
  LET me == procs[s]
      found == WebhookResolve(me.ref, me.id)
  IN /\ me.pc = "find"
     /\ IF found = {} \/ me.status \notin {"authorized", "active", "paused", "cancelled"}
        THEN procs' = [procs EXCEPT ![s] = IdleSlot]
        ELSE \E i \in found :
               LET old == licenses[i].mpPreapprovalId
                   migrate == /\ me.status \in {"authorized", "active"}
                              /\ old # NULL /\ old # me.id
               IN procs' = [procs EXCEPT ![s] =
                    [me EXCEPT !.pc = IF migrate THEN "cancel" ELSE "save",
                               !.row = i, !.lic = <<licenses[i]>>]]
     /\ UNCHANGED <<licenses, pre, now, tokSeq, privKey, res, calls>>

\* the best-effort cancel of the subscription the row was bound to
ConcWebhookCancel(s, okCancel) ==
  LET me == procs[s]
      try == TryCancel(pre, me.lic[1].mpPreapprovalId, okCancel)
  IN /\ me.pc = "cancel"
     /\ pre' = try.pre
     /\ procs' = [procs EXCEPT ![s] =
          IF try.thrown THEN IdleSlot ELSE [me EXCEPT !.pc = "save"]]
     /\ UNCHANGED <<licenses, now, tokSeq, privKey, res, calls>>

\* the columns are set on the row as it was read, and saved
ConcWebhookSave(s) ==
  LET me == procs[s]
      read == me.lic[1]
      activate == me.status \in {"authorized", "active"}
      held == IF activate THEN WebhookActivate(read, me.id)
              ELSE WebhookSuspend(read, me.status)
  IN /\ me.pc = "save"
     /\ licenses' = [licenses EXCEPT ![me.row] = SaveChanged(licenses[me.row], read, held)]
     /\ tokSeq' = IF activate /\ read.token = NULL THEN tokSeq + 1 ELSE tokSeq
     /\ procs' = [procs EXCEPT ![s] = IdleSlot]
     /\ UNCHANGED <<pre, now, privKey, res, calls>>

NextConc ==
  \/ \E u \in Users, plan \in Plans : Subscribe(u, plan, TRUE)
  \/ \E u \in Users : ChangeMethod(u, TRUE)
  \/ \E id \in PreIds : PayerAuthorize(id)
  \/ \E s \in Slots, type \in {"preapproval", "payment"},
          id \in PreIds \cup {NULL, UnknownId} : ConcWebhookRespond(s, type, id)
  \/ \E s \in Slots : ConcWebhookGet(s)
  \/ \E s \in Slots : ConcWebhookFind(s)
  \/ \E s \in Slots, ok \in BOOLEAN : ConcWebhookCancel(s, ok)
  \/ \E s \in Slots : ConcWebhookSave(s)

SpecConc == Init /\ [][NextConc]_vars

(* ---------------- attach and validate between their awaits ------------- *)
\* a request that has its answer: the slot keeps the answer, the device and
\* the row as the handler read it
Answered(op, deviceId, out, i, read) ==
  [IdleSlot EXCEPT !.pc = "answered", !.op = op, !.dev = deviceId, !.out = out,
                   !.row = i, !.lic = read]

\* attach up to its save: the active license is read and the device tested
\* against what was read
ConcAttachFind(s, userId, deviceId) ==
  /\ procs[s].pc = "idle"
  /\ IF FindActiveByUser(userId) = {}
     THEN procs' = [procs EXCEPT ![s] =
                      Answered("attach", deviceId, "no_active_license", 0, <<>>)]
     ELSE \E i \in FindActiveByUser(userId) :
            LET out == AttachOutcome(licenses[i], deviceId)
            IN procs' = [procs EXCEPT ![s] =
                 IF out.err = "quota" \/ ~out.saved
                 THEN Answered("attach", deviceId,
                               IF out.err = "quota" THEN "quota" ELSE "ok",
                               i, <<licenses[i]>>)
                 ELSE [IdleSlot EXCEPT !.pc = "bind", !.op = "attach",
                                       !.dev = deviceId, !.row = i,
                                       !.lic = <<licenses[i]>>]]
  /\ UNCHANGED <<licenses, pre, now, tokSeq, privKey, res, calls>>

\* validate up to its save: the license of the token is read, its status
\* and expiry and the device are tested against what was read
ConcValidateFind(s, token, deviceId) ==
  /\ procs[s].pc = "idle"
  /\ IF FindByToken(token) = {}
     THEN procs' = [procs EXCEPT ![s] =
                      Answered("validate", deviceId, "not_found", 0, <<>>)]
     ELSE \E i \in FindByToken(token) :
            LET lic == licenses[i]
                out == AttachOutcome(lic, deviceId)
            IN procs' = [procs EXCEPT ![s] =
                 IF Usable(lic) # "none"
                 THEN Answered("validate", deviceId, Usable(lic), i, <<lic>>)
                 ELSE IF out.err = "quota" \/ ~out.saved
                 THEN Answered("validate", deviceId,
                               IF out.err = "quota" THEN "quota" ELSE "ok",
                               i, <<lic>>)
                 ELSE [IdleSlot EXCEPT !.pc = "bind", !.op = "validate",
                                       !.dev = deviceId, !.row = i,
                                       !.lic = <<lic>>]]
  /\ UNCHANGED <<licenses, pre, now, tokSeq, privKey, res, calls>>

\* the devices column is saved as the handler computed it from the row it
\* read, and the success answer goes out
ConcBindSave(s) ==
  LET me == procs[s]
      read == me.lic[1]
      held == AttachOutcome(read, me.dev).lic
  IN /\ me.pc = "bind"
     /\ licenses' = [licenses EXCEPT ![me.row] = SaveChanged(licenses[me.row], read, held)]
     /\ procs' = [procs EXCEPT ![s] = Answered(me.op, me.dev, "ok", me.row, me.lic)]
     /\ UNCHANGED <<pre, now, tokSeq, privKey, res, calls>>

\* the caller has its answer and the request is over
ConcDone(s) ==
  /\ procs[s].pc = "answered"
  /\ procs' = [procs EXCEPT ![s] = IdleSlot]
  /\ UNCHANGED <<licenses, pre, now, tokSeq, privKey, res, calls>>

NextBind ==
  \/ \E u \in Users, plan \in Plans : Subscribe(u, plan, TRUE)
  \/ \E id \in PreIds : PayerAuthorize(id)
  \/ \E id \in PreIds : Webhook("preapproval", id)
  \/ \E s \in Slots, u \in Users, d \in TwoDevices : ConcAttachFind(s, u, d)
  \/ \E s \in Slots, t \in 1..tokSeq, d \in TwoDevices : ConcValidateFind(s, t, d)
  \/ \E s \in Slots : ConcBindSave(s)
  \/ \E s \in Slots : ConcDone(s)

SpecBind == Init /\ [][NextBind]_vars

(* ----------------------- subscribe between its awaits ------------------ *)
\* subscribe up to the answer of the provider: the preapproval exists
ConcSubscribeCreate(s, userId, plan) ==
  /\ procs[s].pc = "idle"
  /\ FreshPreIds # {}
  /\ pre' = createSubscriptionDirect(userId)
  /\ procs' = [procs EXCEPT ![s] =
       [IdleSlot EXCEPT !.pc = "sub-find", !.op = "subscribe", !.id = NextPreId,
                        !.ref = userId, !.plan = plan]]
  /\ UNCHANGED <<licenses, now, tokSeq, privKey, res, calls>>

\* the license of the account is looked up
ConcSubscribeFind(s) ==
  LET me == procs[s]
  IN /\ me.pc = "sub-find"
     /\ IF FindByUser(me.ref) = {}
        THEN procs' = [procs EXCEPT ![s] = [me EXCEPT !.pc = "sub-create"]]
        ELSE \E i \in FindByUser(me.ref) :
               procs' = [procs EXCEPT ![s] =
                 [me EXCEPT !.pc = "sub-save", !.row = i, !.lic = <<licenses[i]>>]]
     /\ UNCHANGED <<licenses, pre, now, tokSeq, privKey, res, calls>>

\* the row found is updated and saved, or a row is created when none was
\* found; the preapproval id is new, so the unique index on mpPreapprovalId
\* lets the write through
ConcSubscribeWrite(s) ==
  LET me == procs[s]
  IN /\ me.pc \in {"sub-save", "sub-create"}
     /\ IF me.pc = "sub-save"
        THEN licenses' = [licenses EXCEPT ![me.row] =
               SaveChanged(licenses[me.row], me.lic[1],
                           SubscribeAssign(me.lic[1], me.plan, me.id))]
        ELSE licenses' = Append(licenses,
               NewLicense(me.ref, me.plan, "inactive", now + OneDay, me.id, NULL))
     /\ procs' = [procs EXCEPT ![s] = IdleSlot]
     /\ UNCHANGED <<pre, now, tokSeq, privKey, res, calls>>

NextSubscribe ==
  \/ \E s \in Slots, u \in Users, plan \in Plans : ConcSubscribeCreate(s, u, plan)
  \/ \E s \in Slots : ConcSubscribeFind(s)
  \/ \E s \in Slots : ConcSubscribeWrite(s)
  \/ \E id \in PreIds : PayerAuthorize(id)
  \/ \E id \in PreIds : PayerAbandon(id)

SpecSubscribe == Init /\ [][NextSubscribe]_vars

(* ======================= device binding and quota ====================== *)
DeviceSet(lic) == Range(lic.devices)
AtQuota(lic) == Cardinality(DeviceSet(lic)) >= limitForPlan(lic.plan)

\* C1: in every reachable state every license has at most quota(plan) bound
\* devices, quota(single) = 1 and quota(multi) = 3.
C1_DevicesWithinQuota ==
  \A i \in DOMAIN licenses :
    Cardinality(DeviceSet(licenses[i])) <=
      (IF licenses[i].plan = "single" THEN 1 ELSE 3)

\* C2 as stated: attach of an unbound device to any license that is at its
\* quota fails with the quota-exceeded error and changes no license field.
C2_AnyLicenseAtQuotaRejected ==
  [][res'.op = "attach" =>
     \A u \in Users, d \in DeviceIds, i \in DOMAIN licenses :
       (/\ Attach(u, d)
        /\ licenses[i].userId = u
        /\ d \notin DeviceSet(licenses[i])
        /\ AtQuota(licenses[i]))
       => (res'.code = 403 /\ res'.err = "quota" /\ licenses' = licenses)]_vars

\* C2 amended: attach of an unbound device to an active license that is at
\* its quota fails with the quota-exceeded error and changes no license field.
C2_ActiveAtQuotaRejected ==
  [][res'.op = "attach" =>
     \A u \in Users, d \in DeviceIds, i \in DOMAIN licenses :
       (/\ Attach(u, d)
        /\ licenses[i].userId = u
        /\ licenses[i].status = "active"
        /\ d \notin DeviceSet(licenses[i])
        /\ AtQuota(licenses[i]))
       => (res'.code = 403 /\ res'.err = "quota" /\ licenses' = licenses)]_vars

\* a multi license with its three devices bound has just refused a fourth
C2_Witness ==
  /\ res.op = "attach" /\ res.err = "quota"
  /\ \E i \in DOMAIN licenses :
       /\ licenses[i].plan = "multi" /\ licenses[i].status = "active"
       /\ Cardinality(DeviceSet(licenses[i])) = 3

\* C3 as stated: attach of a device already bound to a license of any status
\* succeeds and returns the license with no field changed.
C3_AttachIdempotentAnyStatus ==
  [][res'.op = "attach" =>
     \A u \in Users, d \in DeviceIds, i \in DOMAIN licenses :
       (/\ Attach(u, d)
        /\ licenses[i].userId = u
        /\ d \in DeviceSet(licenses[i]))
       => (/\ res'.code = 200 /\ res'.err = "none"
           /\ res'.lic = <<licenses[i]>>
           /\ licenses' = licenses)]_vars

\* C3 amended: attach of a device already bound to an active license succeeds
\* and returns the license with no field changed.
C3_AttachIdempotentActive ==
  [][res'.op = "attach" =>
     \A u \in Users, d \in DeviceIds, i \in DOMAIN licenses :
       (/\ Attach(u, d)
        /\ licenses[i].userId = u
        /\ licenses[i].status = "active"
        /\ d \in DeviceSet(licenses[i]))
       => (/\ res'.code = 200 /\ res'.err = "none"
           /\ res'.lic = <<licenses[i]>>
           /\ licenses' = licenses)]_vars

\* attach has answered with a license that is at its quota and was not saved:
\* the device was bound already
C3_Witness ==
  /\ res.op = "attach" /\ res.code = 200 /\ calls = <<>>
  /\ \E i \in DOMAIN licenses :
       /\ res.lic = <<licenses[i]>>
       /\ AtQuota(licenses[i])

\* C4: detach removes the device when bound and changes nothing when not; no
\* other device goes, no other field changes, and a second detach of the same
\* device changes nothing more.
C4_Detach ==
  [][res'.op = "detach" =>
     \A u \in Users, d \in DeviceIds, i \in DOMAIN licenses :
       (Detach(u, d) /\ licenses[i].userId = u)
       => (/\ DOMAIN licenses' = DOMAIN licenses
           /\ DeviceSet(licenses'[i]) = DeviceSet(licenses[i]) \ {d}
           /\ (d \notin DeviceSet(licenses[i]) => licenses' = licenses)
           /\ licenses'[i] = [licenses[i] EXCEPT !.devices = licenses'[i].devices]
           /\ \A j \in DOMAIN licenses : j # i => licenses'[j] = licenses[j]
           /\ DetachOutcome(licenses'[i], d) = licenses'[i]
           /\ res'.code = 200)]_vars

\* detach has answered for a license that keeps two other devices
C4_Witness ==
  /\ res.op = "detach" /\ res.code = 200
  /\ \E i \in DOMAIN licenses :
       /\ res.lic = <<licenses[i]>>
       /\ Cardinality(DeviceSet(licenses[i])) = 2

(* ========================= validate and refresh ======================== *)
Unusable(lic) == lic.status # "active" \/ lic.expiresAt <= now

\* C5: validate and refresh on a license that is not active, or whose
\* expiresAt is at or before now, fail, issue no assertion and bind no device,
\* whether or not the device is bound.
C5_UnusableAlwaysRejected ==
  [][res'.op \in {"validate", "refresh"} =>
     \A t \in 1..tokSeq, d \in DeviceIds, i \in DOMAIN licenses :
       (/\ Validate(t, d) \/ Refresh(t, d)
        /\ licenses[i].token = t
        /\ Unusable(licenses[i]))
       => (res'.code >= 400 /\ res'.jws = <<>> /\ licenses' = licenses)]_vars

\* C6: a rejection by validate or refresh of the license found names the
\* cause: "not active" whenever the status is not active, also when the
\* expiry has passed too; "expired" only for an active license past its expiry.
C6_RejectionNamesCause ==
  [][res'.op \in {"validate", "refresh"} =>
     \A t \in 1..tokSeq, d \in DeviceIds, i \in DOMAIN licenses :
       (/\ Validate(t, d) \/ Refresh(t, d)
        /\ licenses[i].token = t)
       => (/\ licenses[i].status # "active"
              => (res'.code = 403 /\ res'.err = "not_active")
           /\ res'.err = "not_active" => licenses[i].status # "active"
           /\ res'.err = "expired"
              => (/\ res'.code = 403
                  /\ licenses[i].status = "active"
                  /\ licenses[i].expiresAt < now))]_vars

\* a license that is both not active and past its expiry was refused as not
\* active
C6_Witness ==
  /\ res.op \in {"validate", "refresh"} /\ res.err = "not_active"
  /\ \E i \in DOMAIN licenses :
       /\ licenses[i].token # NULL
       /\ licenses[i].status # "active"
       /\ licenses[i].expiresAt < now

(* ===================== rebinding a subscription ======================== *)
CancelCalls(log) == {k \in DOMAIN log : log[k].fn = "cancelPreapproval"}
Saves(log, i) == {k \in DOMAIN log : log[k] = Call("save", i, TRUE)}

\* C8: every step that replaces a license's non-null preapproval id by
\* another id calls the provider's cancel for the old id before the row is
\* saved.
C8_RebindCancelsOld ==
  [][\A i \in DOMAIN licenses :
       (/\ licenses[i].mpPreapprovalId # NULL
        /\ licenses'[i].mpPreapprovalId # licenses[i].mpPreapprovalId)
       => \E k \in CancelCalls(calls'), m \in Saves(calls', i) :
            calls'[k].id = licenses[i].mpPreapprovalId /\ k < m]_vars

\* C9: when the cancel of the old subscription fails while an authorized
\* event rebinds a license, the license still ends active and bound to the
\* event's subscription, and the caller gets the success answer: OK from
\* webhook, the redirect with status ok from return.
C9_CancelFailureSwallowed ==
  (/\ res.op \in {"webhook", "return"}
   /\ \E k \in CancelCalls(calls) : ~calls[k].ok)
  => LET id == calls[1].id
         last == calls[Len(calls)]
     IN /\ calls[1] = Call("getPreapprovalById", id, TRUE)
        /\ last.fn = "save"
        /\ licenses[last.id].status = "active"
        /\ licenses[last.id].mpPreapprovalId = id
        /\ \A k \in CancelCalls(calls) : calls[k].id # id
        /\ res.op = "webhook" => (res.code = 200 /\ res.err = "none")
        /\ res.op = "return" => (res.code = 302 /\ res.err = "ok")

\* the return flow has rebound a license although the cancel of the old
\* subscription failed
C9_Witness ==
  /\ res.op = "return"
  /\ \E k \in CancelCalls(calls) : ~calls[k].ok
  /\ \E i \in DOMAIN licenses : licenses[i].mpPreapprovalId = calls[1].id

\* C10: an authorized or active event for a resolved license of any status
\* leaves it active, bound to the event's subscription, with a token (a new
\* one only if it had none) and expiresAt one month from now; devices, plan
\* and features are unchanged.
C10_AuthorizedEventActivates ==
  [][res'.op \in {"webhook", "return"} =>
     \A id \in PreIds :
       LET Activated(i) ==
             LET old == licenses[i]
                 new == licenses'[i]
             IN /\ new.status = "active"
                /\ new.mpPreapprovalId = id
                /\ new.token # NULL
                /\ old.token # NULL => new.token = old.token
                /\ old.token = NULL
                   => \A j \in DOMAIN licenses : licenses[j].token # new.token
                /\ new.expiresAt = now + OneMonth
                /\ new.devices = old.devices
                /\ new.plan = old.plan
                /\ new.features = old.features
                /\ new.userId = old.userId
       IN pre[id].status \in {"authorized", "active"}
          => /\ (Webhook("preapproval", id) /\ WebhookResolve(pre[id].ref, id) # {})
                => \E i \in WebhookResolve(pre[id].ref, id) : Activated(i)
             /\ (Return(id) /\ pre[id].ref # NULL /\ FindByUser(pre[id].ref) # {})
                => \E i \in FindByUser(pre[id].ref) : Activated(i)]_vars

\* an authorized event has reactivated a license that keeps its device, on a
\* subscription other than the one it was bound to
C10_Witness ==
  /\ res.op = "webhook"
  /\ \E k \in CancelCalls(calls) : TRUE
  /\ \E i \in DOMAIN licenses :
       /\ calls[Len(calls)] = Call("save", i, TRUE)
       /\ licenses[i].status = "active"
       /\ licenses[i].devices # <<>>
       /\ licenses[i].expiresAt = now + OneMonth

(* ============================ the token ================================ *)
\* C7: a token once assigned never changes: in every step, a license whose
\* token is not null keeps it.
C7_TokenImmutable ==
  [][\A i \in DOMAIN licenses :
       licenses[i].token # NULL => licenses'[i].token = licenses[i].token]_vars

(* ====================== cancel, pause, resume ========================== *)
\* C11: a cancelled license becomes active only in a step of the webhook or
\* of the return flow; a resume request never makes a cancelled license
\* active.
C11_CancelledLeavesOnlyByEvent ==
  [][\A i \in DOMAIN licenses :
       (licenses[i].status = "cancelled" /\ licenses'[i].status = "active")
       => res'.op \in {"webhook", "return"}]_vars

(* ============================ change-method ============================ *)
\* C12: change-method, whether the provider call succeeds or fails, leaves
\* every license as it was; on success the provider has one more
\* subscription, pending and referring to the account, and the others are as
\* they were; on failure the provider has nothing new.
C12_ChangeMethodFrame ==
  [][res'.op = "change-method" =>
     /\ licenses' = licenses
     /\ res'.code = 200
        => \E id \in PreIds :
             /\ pre[id].status = "none"
             /\ pre'[id].status = "pending" /\ pre'[id].ref \in Users
             /\ \A other \in PreIds \ {id} : pre'[other] = pre[other]
     /\ res'.code # 200 => pre' = pre]_vars

\* change-method has created a subscription next to the one an active
\* license with a bound device is on
C12_Witness ==
  /\ res.op = "change-method" /\ res.code = 200
  /\ \E i \in DOMAIN licenses :
       /\ licenses[i].status = "active"
       /\ licenses[i].devices # <<>>
       /\ licenses[i].mpPreapprovalId # calls[1].id

\* C13: while a subscription created by change-method has not been
\* authorized, no event about it changes the status or the subscription id of
\* a license that is bound to another subscription; a cancelled or paused
\* event about it does not cancel or pause that license.
C13_ParallelEventsLeaveLicense ==
  [][res'.op = "webhook" =>
     \A n \in PreIds, i \in DOMAIN licenses :
       (/\ Webhook("preapproval", n)
        /\ pre[n].parallel
        /\ licenses[i].mpPreapprovalId \notin {NULL, n})
       => (/\ licenses'[i].status = licenses[i].status
           /\ licenses'[i].mpPreapprovalId = licenses[i].mpPreapprovalId)]_vars

(* ============================== subscribe ============================== *)
\* C14: a successful subscribe leaves the account with a license that is
\* inactive, bound to the subscription just created, on the requested plan,
\* expiring one day from now, with the token and the devices it had (none
\* for a new license) and every other license as it was; a subscribe whose
\* provider call fails creates and changes no license.
C14_SubscribeOutcome ==
  [][res'.op = "subscribe" =>
     \A u \in Users, plan \in Plans, ok \in BOOLEAN :
       Subscribe(u, plan, ok) =>
         IF res'.code = 200
         THEN \E id \in PreIds :
                LET Pending(lic) ==
                      /\ lic.userId = u
                      /\ lic.status = "inactive"
                      /\ lic.mpPreapprovalId = id
                      /\ lic.plan = plan
                      /\ lic.expiresAt = now + OneDay
                IN /\ pre[id].status = "none" /\ pre'[id].status = "pending"
                   /\ IF FindByUser(u) = {}
                      THEN /\ Len(licenses') = Len(licenses) + 1
                           /\ SubSeq(licenses', 1, Len(licenses)) = licenses
                           /\ Pending(licenses'[Len(licenses')])
                           /\ licenses'[Len(licenses')].token = NULL
                           /\ licenses'[Len(licenses')].devices = <<>>
                      ELSE /\ DOMAIN licenses' = DOMAIN licenses
                           /\ \E i \in FindByUser(u) :
                                /\ Pending(licenses'[i])
                                /\ licenses'[i].token = licenses[i].token
                                /\ licenses'[i].devices = licenses[i].devices
                                /\ licenses'[i].features = licenses[i].features
                                /\ \A j \in DOMAIN licenses \ {i} :
                                     licenses'[j] = licenses[j]
         ELSE licenses' = licenses /\ pre' = pre]_vars

\* subscribe has put a license that has a token and a bound device back to
\* inactive, on a new subscription
C14_Witness ==
  /\ res.op = "subscribe" /\ res.code = 200
  /\ \E i \in DOMAIN licenses :
       /\ calls[Len(calls)] = Call("save", i, TRUE)
       /\ licenses[i].status = "inactive"
       /\ licenses[i].token # NULL
       /\ licenses[i].devices # <<>>
       /\ licenses[i].expiresAt = now + OneDay

C16_ValidateBinds ==
  [][res'.op = "validate" =>
     \A t \in 1..tokSeq, d \in DeviceIds, i \in DOMAIN licenses :
       (Validate(t, d) /\ licenses[i].token = t /\ res'.code = 200)
       => LET old == licenses[i]
              new == licenses'[i]
          IN /\ old.status = "active" /\ old.expiresAt >= now
             /\ d \in DeviceSet(new)
             /\ d \in DeviceSet(old) => licenses' = licenses
             /\ d \notin DeviceSet(old)
                => (/\ Cardinality(DeviceSet(old)) < limitForPlan(old.plan)
                    /\ DeviceSet(new) = DeviceSet(old) \cup {d}
                    /\ Len(new.devices) = Len(old.devices) + 1)
             /\ res'.lic = <<Summary(i, new)>>
             /\ res'.lic[1].devices = new.devices
             /\ new = [old EXCEPT !.devices = new.devices]
             /\ DOMAIN licenses' = DOMAIN licenses
             /\ \A j \in DOMAIN licenses \ {i} : licenses'[j] = licenses[j]]_vars

\* validate has bound the third device of a multi license
C16_Witness ==
  /\ res.op = "validate" /\ res.code = 200
  /\ \E i \in DOMAIN licenses :
       /\ calls = <<Call("save", i, TRUE)>>
       /\ licenses[i].plan = "multi"
       /\ Len(licenses[i].devices) = 3
       /\ res.jws[1].dev = licenses[i].devices[3]

(* ========================== the webhook answer ========================= *)
\* C17: the webhook answers OK to every event, whatever its type and id, in
\* the step that takes the request in, before the provider is asked and
\* before any license is written; nothing that happens later in the handler
\* (an unknown id, a failed cancel) answers again; an event without id or
\* not about a preapproval ends there and changes no license.
C17_WebhookAnswersFirst ==
  [][/\ (res' # res /\ res'.op = "webhook") => res' = Response("webhook", 200, "none")
     /\ \A s \in Slots :
          /\ \A type \in {"preapproval", "payment", ""},
                id \in PreIds \cup {NULL, UnknownId} :
               ConcWebhookRespond(s, type, id)
               => (/\ res' = Response("webhook", 200, "none")
                   /\ licenses' = licenses /\ pre' = pre /\ tokSeq' = tokSeq
                   /\ (type # "preapproval" \/ id = NULL) => procs'[s] = IdleSlot)
          /\ (procs[s].pc = "idle" /\ procs'[s].pc # "idle")
             => (/\ procs'[s].pc = "get"
                 /\ res' = Response("webhook", 200, "none")
                 /\ licenses' = licenses /\ pre' = pre)
          /\ (procs[s].pc # "idle" /\ procs'[s] # procs[s]) => res' = res
          /\ (procs[s].pc = "get" /\ procs'[s].pc = "idle")
             => (licenses' = licenses /\ pre' = pre)]_vars

\* the webhook has answered and its handler is about to write a license
\* that is still as the handler read it
C17_Witness ==
  /\ res = Response("webhook", 200, "none")
  /\ \E s \in Slots :
       /\ procs[s].pc = "save"
       /\ procs[s].status = "cancelled"
       /\ licenses[procs[s].row] = procs[s].lic[1]
       /\ licenses[procs[s].row].status = "active"

(* ============================ the assertion ============================ *)
\* C18: an assertion is issued with iat = now and exp = iat + the offline
\* ttl; verified as issued it is accepted at every time before exp and
\* refused as expired at every time after exp; with a claim or the signature
\* altered it is refused for its signature, at any time.
C18_AssertionVerifies ==
  [][/\ (/\ res'.op \in {"validate", "refresh"} /\ res'.jws # <<>>
         /\ \E t \in 1..tokSeq, d \in DeviceIds : Validate(t, d) \/ Refresh(t, d))
        => (res'.jws[1].iat = now /\ res'.jws[1].exp = now + OfflineTtl)
     /\ res'.op = "verify" =>
          \A how \in Tampers :
            Verify(how) =>
              LET a == res.jws[1]
              IN /\ a.exp = a.iat + OfflineTtl
                 /\ (how = "none" /\ now < a.exp) => res'.err = "none"
                 /\ (how = "none" /\ now > a.exp) => res'.err = "expired"
                 /\ how # "none" => res'.err = "invalid_signature"
                 /\ res'.jws = res.jws]_vars

\* an assertion has been refused as expired after its exp, and the license
\* it was issued for is still in the table
C18_Witness ==
  /\ res.op = "verify" /\ res.err = "expired"
  /\ now > res.jws[1].exp
  /\ \E i \in DOMAIN licenses : licenses[i].token = res.jws[1].tok

(* ===================== requests on the same license ==================== *)
\* the request of a slot has been answered with success for its device
BoundOk(s) ==
  /\ procs[s].pc = "answered" /\ procs[s].out = "ok"
  /\ procs[s].op \in {"attach", "validate"}

\* C19: two binding requests (attach or validate) for two different devices
\* that both found the same license with exactly one free slot, neither
\* device bound, are never both answered with success.
C19_OneFreeSlotOneWinner ==
  \A s, t \in Slots :
    (/\ s # t /\ BoundOk(s) /\ BoundOk(t)
     /\ procs[s].row = procs[t].row
     /\ procs[s].lic = procs[t].lic
     /\ procs[s].dev # procs[t].dev)
    => LET read == procs[s].lic[1]
       IN ~(/\ procs[s].dev \notin DeviceSet(read)
            /\ procs[t].dev \notin DeviceSet(read)
            /\ Cardinality(DeviceSet(read)) = limitForPlan(read.plan) - 1)

\* C20: handlers running at once leave the license as some order of them one
\* after the other would; where nothing unbinds devices that means that every
\* device a request was answered success for is bound to the license.
C20_NoLostBinding ==
  \A s \in Slots :
    BoundOk(s) => procs[s].dev \in DeviceSet(licenses[procs[s].row])

(* ===================== paused and cancelled events ===================== *)
\* C21: a paused (cancelled) event for a resolved license of any status
\* stores the status paused (cancelled) and nothing else: token, devices,
\* plan, expiresAt and the subscription id stay, every other license stays,
\* and the provider is only read; an event whose status is neither of these
\* nor authorized changes nothing.
C21_SuspendingEventSetsStatusOnly ==
  [][res'.op = "webhook" =>
     \A id \in PreIds :
       (Webhook("preapproval", id) /\ WebhookResolve(pre[id].ref, id) # {})
       => /\ pre[id].status \in {"paused", "cancelled"}
             => /\ \E i \in WebhookResolve(pre[id].ref, id) :
                     /\ licenses'[i].status = pre[id].status
                     /\ licenses'[i] = [licenses[i] EXCEPT !.status = pre[id].status]
                     /\ \A j \in DOMAIN licenses \ {i} : licenses'[j] = licenses[j]
                /\ DOMAIN licenses' = DOMAIN licenses
                /\ pre' = pre /\ tokSeq' = tokSeq
                /\ \A k \in DOMAIN calls' :
                     calls'[k].fn \in {"getPreapprovalById", "save"}
          /\ pre[id].status \notin {"paused", "cancelled", "authorized", "active"}
             => (licenses' = licenses /\ pre' = pre /\ tokSeq' = tokSeq)]_vars

\* a cancelled event has cancelled an active license that keeps its token,
\* its device and the other subscription it is bound to
C21_Witness ==
  /\ res.op = "webhook" /\ Len(calls) = 2
  /\ \E i \in DOMAIN licenses :
       /\ calls[2] = Call("save", i, TRUE)
       /\ pre[calls[1].id].status = "cancelled"
       /\ licenses[i].status = "cancelled"
       /\ licenses[i].token # NULL
       /\ licenses[i].devices # <<>>
       /\ licenses[i].mpPreapprovalId # calls[1].id
       /\ licenses[i].expiresAt > now

(* ========================= resolving the license ======================= *)
\* the licenses of the account an event refers to, and those bound to the
\* event's subscription
ByReference(id) == IF pre[id].ref # NULL THEN FindByUser(pre[id].ref) ELSE {}
BySubscription(id) == {i \in DOMAIN licenses : licenses[i].mpPreapprovalId = id}

\* C22: the webhook acts on the license of the account the event refers to
\* when there is one, also when that license is bound to another
\* subscription; only when there is none it acts on the license bound to the
\* event's subscription; when there is neither the event is dropped and no
\* license and no provider state changes.
C22_ResolveByReferenceThenId ==
  [][res'.op = "webhook" =>
     \A id \in PreIds :
       (Webhook("preapproval", id) /\ pre[id].status \in {"authorized", "paused", "cancelled"})
       => LET target == IF ByReference(id) # {} THEN ByReference(id)
                        ELSE BySubscription(id)
          IN /\ target = {}
                => (/\ licenses' = licenses /\ pre' = pre /\ tokSeq' = tokSeq
                    /\ calls' = <<Call("getPreapprovalById", id, TRUE)>>)
             /\ target # {}
                => \E i \in target :
                     /\ \A j \in DOMAIN licenses \ {i} : licenses'[j] = licenses[j]
                     /\ calls'[Len(calls')] = Call("save", i, TRUE)
                     /\ pre[id].status = "authorized"
                        => licenses'[i].mpPreapprovalId = id
                     /\ pre[id].status # "authorized"
                        => licenses'[i].status = pre[id].status]_vars

\* an event without external reference has been applied to the license
\* bound to its subscription
C22_Witness ==
  /\ res.op = "webhook" /\ Len(calls) = 2
  /\ pre[calls[1].id].ref = NULL
  /\ \E i \in DOMAIN licenses :
       /\ calls[2] = Call("save", i, TRUE)
       /\ licenses[i].mpPreapprovalId = calls[1].id
       /\ licenses[i].status = pre[calls[1].id].status

(* ======================== the active license =========================== *)
\* C23: no step makes a license active without setting its expiresAt to one
\* month from now.
C23_ActivationAdvancesExpiry ==
  [][\A i \in DOMAIN licenses :
       (licenses[i].status # "active" /\ licenses'[i].status = "active")
       => licenses'[i].expiresAt = now + OneMonth]_vars

\* C28: in every reachable state an active license has a token.
C28_ActiveHasToken ==
  \A i \in DOMAIN licenses :
    licenses[i].status = "active" => licenses[i].token # NULL

(* ==================== explicit cancel, pause, resume =================== *)
ManageOps == {"cancelPreapproval", "pausePreapproval", "resumePreapproval"}

\* C24: a pause request changes the status only of an active license, a
\* cancel request only of an active or paused one; from any other status
\* they leave the status as it is.
C24_ManageOnlyAlongTransitions ==
  [][\A i \in DOMAIN licenses :
       /\ (res'.op = "pausePreapproval" /\ licenses[i].status # "active")
          => licenses'[i].status = licenses[i].status
       /\ (res'.op = "cancelPreapproval" /\ licenses[i].status \notin {"active", "paused"})
          => licenses'[i].status = licenses[i].status]_vars

\* C25: cancel, pause and resume call the provider for the subscription the
\* license is bound to before they write the status; when the call fails the
\* error is returned and no license changes; when the account has no bound
\* subscription the answer is not-found and the provider is not called.
C25_ManageProviderFirst ==
  [][res'.op \in ManageOps =>
     \A u \in Users, ok \in BOOLEAN :
       (Cancel(u, ok) \/ Pause(u, ok) \/ Resume(u, ok))
       => LET bound == {i \in FindByUser(u) : licenses[i].mpPreapprovalId # NULL}
          IN /\ bound = {}
                => (/\ res'.code = 404 /\ calls' = <<>>
                    /\ licenses' = licenses /\ pre' = pre)
             /\ (bound # {} /\ ~ok)
                => (/\ res'.code >= 500
                    /\ licenses' = licenses /\ pre' = pre
                    /\ \E i \in bound :
                         calls' = <<Call(res'.op, licenses[i].mpPreapprovalId, FALSE)>>)
             /\ (bound # {} /\ ok)
                => (/\ res'.code = 200
                    /\ \E i \in bound :
                         /\ calls' = <<Call(res'.op, licenses[i].mpPreapprovalId, TRUE),
                                       Call("save", i, TRUE)>>
                         /\ licenses'[i] = [licenses[i] EXCEPT !.status = licenses'[i].status]
                         /\ \A j \in DOMAIN licenses \ {i} : licenses'[j] = licenses[j])]_vars

\* a pause has failed at the provider and the active license, with its
\* device, is as it was
C25_Witness ==
  /\ res.op = "pausePreapproval" /\ res.code >= 500
  /\ \E i \in DOMAIN licenses :
       /\ calls = <<Call("pausePreapproval", licenses[i].mpPreapprovalId, FALSE)>>
       /\ licenses[i].status = "active"
       /\ licenses[i].devices # <<>>

(* ====================== superseded subscriptions ======================= *)
\* C26: a paused or cancelled event for a subscription the license was
\* rebound away from leaves the license as it is: active and bound to the
\* authorized subscription that superseded it.
C26_StaleEventIgnored ==
  [][res'.op = "webhook" =>
     \A o \in PreIds, i \in DOMAIN licenses :
       (/\ Webhook("preapproval", o)
        /\ pre[o].status \in {"paused", "cancelled"}
        /\ i \in WebhookResolve(pre[o].ref, o)
        /\ licenses[i].status = "active"
        /\ licenses[i].mpPreapprovalId \notin {NULL, o}
        /\ pre[licenses[i].mpPreapprovalId].status = "authorized")
       => licenses'[i] = licenses[i]]_vars

(* ========================= validate that fails ========================= *)
\* C27: a validate request that is answered with an error leaves every
\* license as it was; when signing fails for want of a private key the
\* device presented is not left bound.
C27_FailedValidateChangesNothing ==
  [][(res'.op = "validate" /\ res'.code >= 400) => licenses' = licenses]_vars

(* ====================== one license per account ======================== *)
\* C29: in every reachable state each account has at most one license
\* record.
C29_OneLicensePerAccount ==
  \A u \in Users : Cardinality(FindByUser(u)) <= 1
====
